---- MODULE Spec2Model ----
(***************************************************************************)
(* The kiosk poll-and-reconcile loop of CareerFairKiosk.                   *)
(*                                                                         *)
(* The repository holds four revisions of the same loop:                   *)
(*   "A"  src/script.js lines 1-195     iframe with redirect fallback      *)
(*   "B"  src/script.js lines 197-327   iframe only                        *)
(*   "C"  src/unnamed/part_000          adaptive polling, warm iframe      *)
(*   "D"  src/unnamed/part_001          re-optimized, "fast mode"          *)
(* `variant' selects the revision that the page runs.                      *)
(*                                                                         *)
(* The browser is the environment: timers are instances that fire at any   *)
(* moment while live, fetches settle in any order, the iframe reports a    *)
(* load for a source assignment at any later moment or never.              *)
(***************************************************************************)
EXTENDS Integers, Sequences, FiniteSets, TLC

VARIABLES
    variant,    \* which revision of the script the page runs
    state,      \* the script's `state' object
    cls,        \* per element of `els': TRUE iff it carries class "hidden"
    frame,      \* els.frame: its src attribute and whether onload is set
    timers,     \* live setTimeout / setInterval instances
    loads,      \* load events the iframe still owes
    inflight,   \* fetches issued and not yet settled, in issue order
    docHidden,  \* document.hidden
    page,       \* "kiosk", "navigating" (location assigned) or "gone"
    ev          \* the handler that ran last and what it did to the surface

vars == <<variant, state, cls, frame, timers, loads, inflight, docHidden, page, ev>>

----------------------------------------------------------------------------
(* Bounds of the model *)

MaxInFlight == 2
MaxStaleLoads == 1

----------------------------------------------------------------------------
(* Program constants *)

POLL_INTERVAL_MS == 1000
ACTIVE_TIMEOUT_MS == 120000
IFRAME_LOAD_GRACE_MS == 2500
IDLE_POLL_MS_C == 3000
IDLE_POLL_MS_D == 1000
ACTIVE_POLL_MS == 500

Variants == {"A", "B", "C", "D"}
Adaptive == {"C", "D"}

Null == "null"             \* JavaScript null
NoTimer == 0               \* a timer handle that holds null
Absent == "undefined"      \* a field the record does not carry
NoSrc == ""                \* what frame.src reads when there is no attribute

ItemIds == {"42"}
Urls == {"https://x/f", "https://x"}

\* The src getter of an iframe returns the resolved, serialized URL of the
\* attribute: a URL without a path gains "/".
Resolve(u) == IF u = "https://x" THEN "https://x/" ELSE u

\* StatusRecord as the worker returns it.  No handler reads itemId or formUrl
\* of a record that is not active, so two inactive records stand for all.
Records ==
    [active : {TRUE}, itemId : ItemIds \cup {Absent}, formUrl : Urls \cup {Absent}]
      \cup {[active |-> FALSE, itemId |-> Absent, formUrl |-> Absent],
            [active |-> FALSE, itemId |-> "42", formUrl |-> "https://x/f"]}

\* What a fetch can settle with: transport failure, non-success status,
\* a JSON null body, or a record.
Fail == [kind |-> "fail"]
NotOk == [kind |-> "notok"]
NullData == [kind |-> "null"]
Responses == {Fail, NotOk, NullData} \cup {[kind |-> "record", data |-> r] : r \in Records}

\* The program and its browser as one value, threaded through the handlers.
W == [variant |-> variant, state |-> state, cls |-> cls, frame |-> frame,
      timers |-> timers, loads |-> loads, inflight |-> inflight,
      docHidden |-> docHidden, page |-> page, nSet |-> 0]

----------------------------------------------------------------------------
(* Browser primitives *)

show(w, el) == [w EXCEPT !.cls[el] = FALSE]
hide(w, el) == [w EXCEPT !.cls[el] = TRUE]

\* Timer ids are never reused by the browser; the least id that is neither
\* live nor still held in a handle is as good as a new one.
UsedIds(w) == {t.id : t \in w.timers}
                \cup ({w.state.activeTimer, w.state.iframeLoadTimer, w.state.pollTimer} \ {NoTimer})
FreshId(w) == CHOOSE i \in 1..(Cardinality(UsedIds(w)) + 1) :
                 /\ i \notin UsedIds(w)
                 /\ \A j \in 1..(Cardinality(UsedIds(w)) + 1) : j \notin UsedIds(w) => i <= j

\* clearTimeout / clearInterval, behind the `if (handle)' of every call site
clearTimer(w, h) == IF h # NoTimer THEN [w EXCEPT !.timers = {t \in @ : t.id # h}] ELSE w

\* setTimeout / setInterval: a new live instance
Timer(id, kind, ms, url) == [id |-> id, kind |-> kind, ms |-> ms, url |-> url]

\* els.frame.src = url : a navigation of the iframe, which owes one load;
\* a load still owed for the previous source is now a superseded one.
Supersede(l) == IF l.cur THEN (IF l.stale < MaxStaleLoads THEN l.stale + 1 ELSE MaxStaleLoads)
                ELSE l.stale
setSource(w, url) == [w EXCEPT !.frame.src = url,
                               !.loads = [cur |-> TRUE, stale |-> Supersede(w.loads)],
                               !.nSet = @ + 1]

\* els.frame.removeAttribute("src"): nothing if there is no attribute;
\* otherwise the source is gone and a load still owed is a superseded one.
removeSrc(w) == IF w.frame.src = NoSrc THEN w
                ELSE [w EXCEPT !.frame.src = NoSrc,
                               !.loads = [cur |-> FALSE, stale |-> Supersede(w.loads)]]

\* els.frame.src read back
frameSrcGet(w) == IF w.frame.src = NoSrc THEN NoSrc ELSE Resolve(w.frame.src)

----------------------------------------------------------------------------
(* Revision A: src/script.js lines 1-195 *)

\* showIdle that leaves the iframe grace timeout pending
showIdleA_KeepsGraceTimer(w) ==
    LET w1 == clearTimer(w, w.state.activeTimer)
        w2 == [w1 EXCEPT !.state.activeTimer = NoTimer,
                         !.state.lastItemId = Null, !.state.lastFormUrl = Null,
                         !.state.redirecting = FALSE]
        w3 == hide(hide(hide(removeSrc(w2), "frame"), "redirectMode"), "loading")
    IN hide(show(w3, "idle"), "active")

showIdleA(w) ==
    LET w1 == clearTimer(clearTimer(w, w.state.activeTimer), w.state.iframeLoadTimer)
        w2 == [w1 EXCEPT !.state.activeTimer = NoTimer, !.state.iframeLoadTimer = NoTimer,
                         !.state.lastItemId = Null, !.state.lastFormUrl = Null,
                         !.state.redirecting = FALSE]
        w3 == hide(hide(hide(removeSrc(w2), "frame"), "redirectMode"), "loading")
    IN hide(show(w3, "idle"), "active")

showActiveA(w, formUrl, itemId) ==
    IF w.state.lastItemId = itemId /\ w.state.lastFormUrl = formUrl THEN w
    ELSE
    LET w1 == [w EXCEPT !.state.lastItemId = itemId, !.state.lastFormUrl = formUrl,
                        !.state.redirecting = FALSE]
        w2 == hide(show(show(hide(w1, "idle"), "active"), "loading"), "redirectMode")
        w3 == show(setSource(w2, formUrl), "frame")
        w4 == clearTimer(w3, w3.state.iframeLoadTimer)
        g  == FreshId(w4)
        w5 == [w4 EXCEPT !.timers = @ \cup {Timer(g, "grace", IFRAME_LOAD_GRACE_MS, formUrl)},
                         !.state.iframeLoadTimer = g,
                         !.frame.onload = TRUE]
        w6 == clearTimer(w5, w5.state.activeTimer)
        a  == FreshId(w6)
    IN [w6 EXCEPT !.timers = @ \cup {Timer(a, "active", ACTIVE_TIMEOUT_MS, Null)},
                  !.state.activeTimer = a]

switchToRedirect(w, formUrl) ==
    LET w1 == [w EXCEPT !.state.redirecting = TRUE]
        w2 == show(hide(hide(w1, "frame"), "loading"), "redirectMode")
    IN [w2 EXCEPT !.page = [phase |-> "navigating", to |-> formUrl]]

\* the callback of the grace timer armed at script.js:111
graceCallbackA(w, formUrl) ==
    IF ~w.state.redirecting THEN switchToRedirect(w, formUrl) ELSE w

\* els.frame.onload as assigned at script.js:122
onloadA(w) ==
    LET w1 == hide(w, "loading")
    IN IF w1.state.iframeLoadTimer # NoTimer
       THEN [clearTimer(w1, w1.state.iframeLoadTimer) EXCEPT !.state.iframeLoadTimer = NoTimer]
       ELSE w1

\* the part of pollLoop after `await fetchActive()'
pollLoopA(w, r) ==
    IF r.kind \in {"fail", "notok"} THEN showIdleA(w)
    ELSE IF r.kind = "null" \/ r.data.active # TRUE THEN showIdleA(w)
    ELSE LET itemId == IF r.data.itemId = Absent THEN "unknown" ELSE r.data.itemId
             formUrl == r.data.formUrl
         IN IF formUrl = Absent THEN showIdleA(w)
            ELSE showActiveA(w, formUrl, itemId)

----------------------------------------------------------------------------
(* Revision B: src/script.js lines 197-327 *)

resetActiveTimerB(w) ==
    LET w1 == clearTimer(w, w.state.activeTimer)
        a  == FreshId(w1)
    IN [w1 EXCEPT !.timers = @ \cup {Timer(a, "active", ACTIVE_TIMEOUT_MS, Null)},
                  !.state.activeTimer = a]

\* showIdle that forgets to clear lastFormUrl
showIdleB_KeepsUrl(w) ==
    LET w1 == [clearTimer(w, w.state.activeTimer) EXCEPT !.state.activeTimer = NoTimer,
                   !.state.lastItemId = Null]
        w2 == hide(hide(removeSrc(w1), "frame"), "loading")
    IN hide(show(w2, "idle"), "active")

showIdleB(w) ==
    LET w1 == [clearTimer(w, w.state.activeTimer) EXCEPT !.state.activeTimer = NoTimer,
                   !.state.lastItemId = Null, !.state.lastFormUrl = Null]
        w2 == hide(hide(removeSrc(w1), "frame"), "loading")
    IN hide(show(w2, "idle"), "active")

\* showActive without the same-session test: every active record reloads
showActiveB_AlwaysReloads(w, formUrl, itemId) ==
    LET w1 == [w EXCEPT !.state.lastItemId = itemId, !.state.lastFormUrl = formUrl]
        w2 == show(show(hide(w1, "idle"), "active"), "loading")
        w3 == [w2 EXCEPT !.frame.onload = TRUE]
        w4 == show(setSource(w3, formUrl), "frame")
    IN resetActiveTimerB(w4)

showActiveB(w, formUrl, itemId) ==
    IF w.state.lastItemId = itemId /\ w.state.lastFormUrl = formUrl
    THEN resetActiveTimerB(w)
    ELSE
    LET w1 == [w EXCEPT !.state.lastItemId = itemId, !.state.lastFormUrl = formUrl]
        w2 == show(show(hide(w1, "idle"), "active"), "loading")
        w3 == [w2 EXCEPT !.frame.onload = TRUE]
        w4 == show(setSource(w3, formUrl), "frame")
    IN resetActiveTimerB(w4)

onloadB(w) == hide(w, "loading")

pollOnceB(w, r) ==
    IF r.kind \in {"fail", "notok"} THEN showIdleB(w)
    ELSE IF r.kind = "null" \/ r.data.active # TRUE THEN showIdleB(w)
    ELSE LET itemId == IF r.data.itemId = Absent THEN "unknown" ELSE r.data.itemId
             formUrl == r.data.formUrl
         IN IF formUrl = Absent THEN showIdleB(w)
            ELSE showActiveB(w, formUrl, itemId)

----------------------------------------------------------------------------
(* Revision C: src/unnamed/part_000 *)

\* startPolling that does not clear the interval it replaces
startPollingC_NoClear(w, interval) ==
    LET p == FreshId(w)
    IN [w EXCEPT !.state.currentPollMs = interval,
                 !.timers = @ \cup {Timer(p, "poll", interval, Null)},
                 !.state.pollTimer = p]

startPollingC(w, interval) ==
    LET w1 == clearTimer(w, w.state.pollTimer)
        p  == FreshId(w1)
    IN [w1 EXCEPT !.state.currentPollMs = interval,
                  !.timers = @ \cup {Timer(p, "poll", interval, Null)},
                  !.state.pollTimer = p]

stopPollingC(w) == [clearTimer(w, w.state.pollTimer) EXCEPT !.state.pollTimer = NoTimer]

\* resetActiveTimer that cancels the timeout and arms none
resetActiveTimerC_ClearOnly(w) == clearTimer(w, w.state.activeTimer)

resetActiveTimerC(w) ==
    LET w1 == clearTimer(w, w.state.activeTimer)
        a  == FreshId(w1)
    IN [w1 EXCEPT !.timers = @ \cup {Timer(a, "active", ACTIVE_TIMEOUT_MS, Null)},
                  !.state.activeTimer = a]

\* showIdle without the early return for a loop that is already idle
showIdleC_NoEarlyReturn(w) ==
    LET w1 == [w EXCEPT !.state.isActive = FALSE,
                        !.state.lastItemId = Null, !.state.lastFormUrl = Null]
        w2 == [clearTimer(w1, w1.state.activeTimer) EXCEPT !.state.activeTimer = NoTimer]
        w3 == hide(show(hide(hide(w2, "frame"), "loading"), "idle"), "active")
    IN startPollingC(w3, IDLE_POLL_MS_C)

\* showIdle that shows the idle screen but keeps the Session
showIdleC_KeepsSession(w) ==
    IF ~w.state.isActive /\ ~w.cls["idle"] THEN w
    ELSE
    LET w1 == [w EXCEPT !.state.isActive = FALSE]
        w2 == [clearTimer(w1, w1.state.activeTimer) EXCEPT !.state.activeTimer = NoTimer]
        w3 == hide(show(hide(hide(w2, "frame"), "loading"), "idle"), "active")
    IN startPollingC(w3, IDLE_POLL_MS_C)

showIdleC(w) ==
    IF ~w.state.isActive /\ ~w.cls["idle"] THEN w
    ELSE
    LET w1 == [w EXCEPT !.state.isActive = FALSE,
                        !.state.lastItemId = Null, !.state.lastFormUrl = Null]
        w2 == [clearTimer(w1, w1.state.activeTimer) EXCEPT !.state.activeTimer = NoTimer]
        w3 == hide(show(hide(hide(w2, "frame"), "loading"), "idle"), "active")
    IN startPollingC(w3, IDLE_POLL_MS_C)

showActiveC(w, formUrl, itemId) ==
    IF w.state.isActive /\ w.state.lastItemId = itemId /\ w.state.lastFormUrl = formUrl
    THEN resetActiveTimerC(w)
    ELSE
    LET w1 == [w EXCEPT !.state.isActive = TRUE,
                        !.state.lastItemId = itemId, !.state.lastFormUrl = formUrl]
        w2 == show(show(hide(w1, "idle"), "active"), "loading")
        w3 == [w2 EXCEPT !.frame.onload = TRUE]
        w4 == IF frameSrcGet(w3) # formUrl THEN setSource(w3, formUrl) ELSE w3
        w5 == show(w4, "frame")
    IN startPollingC(resetActiveTimerC(w5), ACTIVE_POLL_MS)

onloadC(w) == hide(w, "loading")

pollOnceC(w, r) ==
    IF r.kind \in {"fail", "notok"} THEN showIdleC(w)
    ELSE IF r.kind = "null" \/ r.data.active # TRUE THEN showIdleC(w)
    ELSE LET itemId == IF r.data.itemId = Absent THEN "unknown" ELSE r.data.itemId
             formUrl == r.data.formUrl
         IN IF formUrl = Absent THEN showIdleC(w)
            ELSE showActiveC(w, formUrl, itemId)

visibilitychangeC(w) ==
    IF w.docHidden THEN stopPollingC(w)
    ELSE startPollingC(w, IF w.state.isActive THEN ACTIVE_POLL_MS ELSE IDLE_POLL_MS_C)

----------------------------------------------------------------------------
(* Revision D: src/unnamed/part_001 *)

startPollingD(w, interval) ==
    LET w1 == clearTimer(w, w.state.pollTimer)
        p  == FreshId(w1)
    IN [w1 EXCEPT !.state.currentPollMs = interval,
                  !.timers = @ \cup {Timer(p, "poll", interval, Null)},
                  !.state.pollTimer = p]

stopPollingD(w) == [clearTimer(w, w.state.pollTimer) EXCEPT !.state.pollTimer = NoTimer]

resetActiveTimerD(w) ==
    LET w1 == clearTimer(w, w.state.activeTimer)
        a  == FreshId(w1)
    IN [w1 EXCEPT !.timers = @ \cup {Timer(a, "active", ACTIVE_TIMEOUT_MS, Null)},
                  !.state.activeTimer = a]

\* showIdle that leaves the inactivity timeout pending
showIdleD_NoClearTimeout(w) ==
    IF w.state.isActive
    THEN LET w1 == [w EXCEPT !.state.isActive = FALSE,
                             !.state.lastItemId = Null, !.state.lastFormUrl = Null]
             w3 == hide(show(hide(hide(w1, "frame"), "loading"), "idle"), "active")
         IN startPollingD(w3, IDLE_POLL_MS_D)
    ELSE w

showIdleD(w) ==
    IF w.state.isActive
    THEN LET w1 == [w EXCEPT !.state.isActive = FALSE,
                             !.state.lastItemId = Null, !.state.lastFormUrl = Null]
             w2 == clearTimer(w1, w1.state.activeTimer)
             w3 == hide(show(hide(hide(w2, "frame"), "loading"), "idle"), "active")
         IN startPollingD(w3, IDLE_POLL_MS_D)
    ELSE w

showActiveD(w, formUrl, itemId) ==
    LET w0 == [w EXCEPT !.state.isActive = TRUE]
        w1 == IF formUrl # Absent
              THEN IF w0.state.lastFormUrl # formUrl
                   THEN LET a == [w0 EXCEPT !.state.lastFormUrl = formUrl,
                                            !.state.lastItemId = itemId]
                            b == show(show(hide(a, "idle"), "active"), "loading")
                            c == [b EXCEPT !.frame.onload = TRUE]
                            d == IF frameSrcGet(c) # formUrl THEN setSource(c, formUrl) ELSE c
                        IN show(d, "frame")
                   ELSE w0
              ELSE show(show(hide(w0, "idle"), "active"), "loading")
        w2 == resetActiveTimerD(w1)
    IN IF w2.state.currentPollMs # ACTIVE_POLL_MS
       THEN startPollingD(w2, ACTIVE_POLL_MS)
       ELSE w2

onloadD(w) == hide(w, "loading")

\* pollOnce that falls back to idle when the record carries no formUrl
pollOnceD_IdleWithoutUrl(w, r) ==
    IF r.kind \in {"fail", "notok"} THEN w
    ELSE IF r.kind = "record" /\ r.data.active = TRUE /\ r.data.formUrl # Absent
         THEN showActiveD(w, r.data.formUrl, r.data.itemId)
         ELSE showIdleD(w)

\* the part of pollOnce after the awaits; a throw lands in the catch,
\* which only writes the badge
pollOnceD(w, r) ==
    IF r.kind \in {"fail", "notok"} THEN w
    ELSE IF r.kind = "record" /\ r.data.active = TRUE
         THEN showActiveD(w, r.data.formUrl, r.data.itemId)
         ELSE showIdleD(w)

\* a visibility handler that resumes at the idle interval whatever the state
visibilitychangeD_AlwaysIdle(w) ==
    IF w.docHidden THEN stopPollingD(w)
    ELSE startPollingD(w, IDLE_POLL_MS_D)

visibilitychangeD(w) ==
    IF w.docHidden THEN stopPollingD(w)
    ELSE startPollingD(w, IF w.state.isActive THEN ACTIVE_POLL_MS ELSE IDLE_POLL_MS_D)

----------------------------------------------------------------------------
(* Dispatch on the revision *)

showIdle(w) ==
    CASE w.variant = "A" -> showIdleA(w)
      [] w.variant = "B" -> showIdleB(w)
      [] w.variant = "C" -> showIdleC(w)
      [] w.variant = "D" -> showIdleD(w)

\* what the script does with a settled fetch
onSettled(w, r) ==
    CASE w.variant = "A" -> pollLoopA(w, r)
      [] w.variant = "B" -> pollOnceB(w, r)
      [] w.variant = "C" -> pollOnceC(w, r)
      [] w.variant = "D" -> pollOnceD(w, r)

onload(w) ==
    IF ~w.frame.onload THEN w
    ELSE CASE w.variant = "A" -> onloadA(w)
           [] w.variant = "B" -> onloadB(w)
           [] w.variant = "C" -> onloadC(w)
           [] w.variant = "D" -> onloadD(w)

visibilitychange(w) ==
    CASE w.variant = "C" -> visibilitychangeC(w)
      [] w.variant = "D" -> visibilitychangeD(w)

\* the synchronous head of pollLoop / pollOnce: the fetch is issued
issueFetch(w) == [w EXCEPT !.inflight = Append(@, [stale |-> FALSE])]

\* the fetch at position i settles: it leaves the list, and the fetches issued
\* before it are from now on older than a response already processed
settle(w, i) ==
    [w EXCEPT !.inflight = [j \in 1..(Len(@) - 1) |->
                               IF j < i THEN [stale |-> TRUE] ELSE @[j + 1]]]

----------------------------------------------------------------------------
(* The page before its script runs, and the script's top-level statements *)

Elements == {"idle", "active", "loading", "frame", "redirectMode"}

Blank(v, markup) ==
    [variant |-> v,
     state |-> [lastItemId |-> Null, lastFormUrl |-> Null, activeTimer |-> NoTimer,
                iframeLoadTimer |-> NoTimer, redirecting |-> FALSE, pollTimer |-> NoTimer,
                currentPollMs |-> IF v = "C" THEN IDLE_POLL_MS_C
                                  ELSE IF v = "D" THEN IDLE_POLL_MS_D
                                  ELSE POLL_INTERVAL_MS,
                isActive |-> FALSE],
     cls |-> markup,
     frame |-> [src |-> NoSrc, onload |-> FALSE],
     timers |-> {},
     loads |-> [cur |-> FALSE, stale |-> 0],
     inflight |-> <<>>,
     docHidden |-> FALSE,
     page |-> [phase |-> "kiosk", to |-> Null],
     nSet |-> 0]

\* setInterval(pollLoop, CONFIG.POLL_INTERVAL_MS) with the handle dropped
setIntervalAB(w) ==
    [w EXCEPT !.timers = @ \cup {Timer(FreshId(w), "poll", POLL_INTERVAL_MS, Null)}]

Start(w) ==
    CASE w.variant = "A" -> issueFetch(setIntervalAB(showIdleA(w)))
      [] w.variant = "B" -> issueFetch(setIntervalAB(showIdleB(w)))
      [] w.variant = "C" -> issueFetch(startPollingC(showIdleC(w), IDLE_POLL_MS_C))
      [] w.variant = "D" -> issueFetch(showIdleD([w EXCEPT !.state.isActive = TRUE]))

\* The markup is not part of the sources: every element may or may not carry
\* "hidden" in it, except that redirectMode exists only on the page of A.
Markups == {m \in [Elements -> BOOLEAN] : m["redirectMode"]}

Commit(n, e) ==
    /\ variant' = n.variant
    /\ state' = n.state
    /\ cls' = n.cls
    /\ frame' = n.frame
    /\ timers' = n.timers
    /\ loads' = n.loads
    /\ inflight' = n.inflight
    /\ docHidden' = n.docHidden
    /\ page' = n.page
    /\ ev' = [e EXCEPT !.nSet = n.nSet]

\* DisplayState of the specification, read off the page: the idle screen is
\* shown, or else the loading indicator is, or else neither.  Revision A has
\* a fourth presentation, the redirect panel shown by switchToRedirect.
DisplayStateOf(w) ==
    IF ~w.cls["idle"] THEN "Idle"
    ELSE IF ~w.cls["redirectMode"] THEN "Redirect"
    ELSE IF ~w.cls["loading"] THEN "ActiveLoading"
    ELSE "ActiveLoaded"

\* the itemId the revision hands to showActive
itemOf(w, data) ==
    IF w.variant = "D" THEN data.itemId
    ELSE IF data.itemId = Absent THEN "unknown" ELSE data.itemId

\* how a settled fetch relates to the Session it meets
InputClass(w, r) ==
    IF r.kind \in {"fail", "notok"} THEN "fail"
    ELSE IF r.kind = "null" \/ r.data.active # TRUE THEN "inactive"
    ELSE IF r.data.formUrl = Absent THEN "nourl"
    ELSE IF r.data.formUrl # w.state.lastFormUrl THEN "diffurl"
    ELSE IF itemOf(w, r.data) # w.state.lastItemId THEN "diffitem"
    ELSE "same"

\* The record of the last handler: which one ran, on what kind of input, from
\* which DisplayState, how many times it assigned frame.src, and for a settled
\* fetch / a load whether it was a superseded / the current one.
Ev(op) == [op |-> op, in |-> "none", prev |-> DisplayStateOf(W), nSet |-> 0,
           stale |-> FALSE, cur |-> FALSE]

Init ==
    \E v \in Variants, m \in Markups :
        LET n == Start(Blank(v, m)) IN
        /\ variant = n.variant
        /\ state = n.state
        /\ cls = n.cls
        /\ frame = n.frame
        /\ timers = n.timers
        /\ loads = n.loads
        /\ inflight = n.inflight
        /\ docHidden = n.docHidden
        /\ page = n.page
        /\ ev = [op |-> "start", in |-> "none", prev |-> "Idle", nSet |-> 0,
                 stale |-> FALSE, cur |-> FALSE]

Alive == page.phase # "gone"

----------------------------------------------------------------------------
(* One action per callback the browser can run *)

\* a live poll interval fires: pollLoop / pollOnce runs up to its await
PollTimerFire(t) ==
    /\ Alive
    /\ t \in timers /\ t.kind = "poll"
    /\ Len(inflight) < MaxInFlight
    /\ Commit(issueFetch(W), Ev("pollTimer"))

\* a fetch settles with r: the rest of pollLoop / pollOnce runs
PollResponse(i, r) ==
    /\ Alive
    /\ i \in 1..Len(inflight)
    /\ Commit(onSettled(settle(W, i), r), [Ev("response") EXCEPT !.stale = inflight[i].stale, !.in = InputClass(W, r)])

\* the inactivity timeout fires
ActiveTimerFire(t) ==
    /\ Alive
    /\ t \in timers /\ t.kind = "active"
    /\ Commit(showIdle([W EXCEPT !.timers = @ \ {t}]), Ev("activeTimeout"))

\* the iframe grace timeout of revision A fires
GraceTimerFire(t) ==
    /\ Alive
    /\ t \in timers /\ t.kind = "grace"
    /\ Commit(graceCallbackA([W EXCEPT !.timers = @ \ {t}], t.url), Ev("graceTimeout"))

\* the iframe fires load: for its current source or for a superseded one
FrameLoad(current) ==
    /\ Alive
    /\ IF current THEN loads.cur ELSE loads.stale > 0
    /\ Commit(onload([W EXCEPT !.loads = IF current THEN [@ EXCEPT !.cur = FALSE]
                                        ELSE [@ EXCEPT !.stale = @ - 1]]),
              [Ev("load") EXCEPT !.cur = current])

\* the tab is hidden or shown; only C and D listen
VisibilityChange ==
    /\ Alive
    /\ variant \in Adaptive
    /\ Commit(visibilitychange([W EXCEPT !.docHidden = ~@]), Ev("visibility"))

\* the navigation started by window.location.href = formUrl replaces the page
PageUnload ==
    /\ page.phase = "navigating"
    /\ page' = [page EXCEPT !.phase = "gone"]
    /\ ev' = Ev("unload")
    /\ UNCHANGED <<variant, state, cls, frame, timers, loads, inflight, docHidden>>

Next ==
    \/ \E t \in timers : PollTimerFire(t)
    \/ \E i \in 1..MaxInFlight, r \in Responses : PollResponse(i, r)
    \/ \E t \in timers : ActiveTimerFire(t)
    \/ \E t \in timers : GraceTimerFire(t)
    \/ \E c \in BOOLEAN : FrameLoad(c)
    \/ VisibilityChange
    \/ PageUnload

Spec == Init /\ [][Next]_vars

----------------------------------------------------------------------------
(* The vocabulary of the specification, read off the page *)

Session == <<state.lastItemId, state.lastFormUrl>>
SessionEmpty == state.lastItemId = Null /\ state.lastFormUrl = Null

DisplayState == DisplayStateOf(W)

ActiveTimers == {t \in timers : t.kind = "active"}
PollTimers == {t \in timers : t.kind = "poll"}
GraceTimers == {t \in timers : t.kind = "grace"}

TypeOK ==
    /\ variant \in Variants
    /\ docHidden \in BOOLEAN
    /\ Len(inflight) <= MaxInFlight
    /\ loads.stale \in 0..MaxStaleLoads

----------------------------------------------------------------------------
(* Claims *)

Response(class) == ev.op = "response" /\ ev.in = class

\* C1: after a poll whose record has active != true is processed,
\* DisplayState is Idle and Session is empty, whatever the state before.
C1_InactiveGoesIdle ==
    Response("inactive") => (DisplayState = "Idle" /\ SessionEmpty)

C1_Witness ==
    /\ Response("inactive") /\ ev.prev = "ActiveLoaded"
    /\ variant = "D" /\ DisplayState = "Idle" /\ SessionEmpty

\* C2: a poll that ends in a transport failure or a non-success response is
\* handled like active:false: afterwards DisplayState is Idle and Session is
\* empty, and a live poll timer of C and D runs at the idle interval.
C2_FailureGoesIdle ==
    Response("fail") =>
        /\ DisplayState = "Idle" /\ SessionEmpty
        /\ variant \in Adaptive =>
               \A t \in PollTimers :
                   t.ms = IF variant = "C" THEN IDLE_POLL_MS_C ELSE IDLE_POLL_MS_D

\* C3: DisplayState != Idle implies Session is non-empty, and
\* DisplayState == Idle implies Session is empty.
C3_SessionIffActive ==
    (DisplayState # "Idle") <=> ~SessionEmpty

\* C3 as amended: Idle implies an empty Session in every revision; not Idle
\* implies a non-empty Session in A, B and C, and in D it implies isActive.
C3_Amended ==
    /\ DisplayState = "Idle" => SessionEmpty
    /\ (DisplayState # "Idle" /\ variant # "D") => ~SessionEmpty
    /\ variant = "D" => (state.isActive <=> DisplayState # "Idle")
    /\ variant = "D" => (~SessionEmpty => state.isActive)

C3_Witness ==
    /\ variant = "D" /\ DisplayState = "ActiveLoading" /\ SessionEmpty
    /\ Response("nourl") /\ ev.prev = "Idle"

\* C4: processing an active record whose formUrl and itemId both equal the
\* current Session assigns no frame.src and leaves DisplayState and Session
\* unchanged.
C4_SameSessionNoReload ==
    [][(ev'.op = "response" /\ ev'.in = "same") =>
          /\ ev'.nSet = 0
          /\ frame'.src = frame.src
          /\ DisplayState' = DisplayState
          /\ Session' = Session]_vars

C4_Witness ==
    /\ Response("same") /\ ev.prev = "ActiveLoaded" /\ DisplayState = "ActiveLoaded"
    /\ ev.nSet = 0 /\ frame.src = state.lastFormUrl

\* C5: processing an active record whose formUrl differs from the Session's
\* URL assigns frame.src exactly once, to the new URL, and sets DisplayState
\* to ActiveLoading; ActiveLoading turns into ActiveLoaded only by a load.
C5_NewUrlLoadsOnce ==
    [][/\ (ev'.op = "response" /\ ev'.in = "diffurl") =>
             /\ ev'.nSet = 1
             /\ frame'.src = state'.lastFormUrl
             /\ DisplayState' = "ActiveLoading"
       /\ (DisplayState = "ActiveLoading" /\ DisplayState' = "ActiveLoaded") =>
             ev'.op = "load"
       /\ (ev'.op = "load" /\ DisplayState = "ActiveLoading") =>
             DisplayState' = "ActiveLoaded"]_vars

\* C6: every accepted active record, same-session or different-session,
\* cancels the inactivity timer and starts a new one with the full timeout.
Accepted == IF variant = "D" THEN {"same", "diffitem", "diffurl", "nourl"}
            ELSE {"same", "diffitem", "diffurl"}

C6_Rearmed ==
    [][(ev'.op = "response" /\ ev'.in \in Accepted) =>
          \E t \in timers' :
              /\ t.kind = "active" /\ t.ms = ACTIVE_TIMEOUT_MS
              /\ t \notin timers
              /\ t.id = state'.activeTimer
              /\ ActiveTimers' = {t}]_vars

\* C7: an inactivity timer fires once, its firing forces Idle with an empty
\* Session, and no inactivity timer is live while the loop is Idle.
C7_TimeoutForcesIdle ==
    [][/\ ev'.op = "activeTimeout" =>
             /\ DisplayState' = "Idle" /\ SessionEmpty'
             /\ ActiveTimers' = {}
       /\ ActiveTimers # {} => DisplayState # "Idle"
       /\ ActiveTimers' # {} => DisplayState' # "Idle"]_vars

C7_Witness ==
    /\ ev.op = "activeTimeout" /\ ev.prev = "ActiveLoaded"
    /\ DisplayState = "Idle" /\ SessionEmpty /\ ActiveTimers = {}

\* C8: at most one poll timer and at most one inactivity timer are live.
C8_OneTimerEach ==
    /\ Cardinality(PollTimers) <= 1
    /\ Cardinality(ActiveTimers) <= 1

C8_Witness ==
    /\ Cardinality(PollTimers) = 1 /\ Cardinality(ActiveTimers) = 1
    /\ variant = "C" /\ Response("diffurl") /\ ev.prev = "ActiveLoading"

\* C9: in C and D a live poll timer runs at the active interval when
\* DisplayState != Idle and at the idle interval when DisplayState == Idle.
C9_Cadence ==
    variant \in Adaptive =>
        \A t \in PollTimers :
            t.ms = IF DisplayState # "Idle" THEN ACTIVE_POLL_MS
                   ELSE IF variant = "C" THEN IDLE_POLL_MS_C ELSE IDLE_POLL_MS_D

C9_Witness ==
    /\ variant = "D" /\ ev.op = "visibility" /\ ~docHidden
    /\ DisplayState = "ActiveLoaded"
    /\ \E t \in PollTimers : t.ms = ACTIVE_POLL_MS

\* C10: the response of a poll that was issued before a poll whose response
\* has already been processed changes neither DisplayState nor Session.
C10_StaleResponseIgnored ==
    [][(ev'.op = "response" /\ ev'.stale) =>
          (DisplayState' = DisplayState /\ Session' = Session)]_vars

\* C11: in C and D no poll timer is live while the display is hidden, and the
\* handler that runs when visibility returns leaves exactly one poll timer,
\* at the active interval if the loop is active and the idle one otherwise.
C11_NoPollWhileHidden ==
    /\ (variant \in Adaptive /\ docHidden) => PollTimers = {}
    /\ (variant \in Adaptive /\ ev.op = "visibility" /\ ~docHidden) =>
           \E t \in PollTimers :
               /\ PollTimers = {t}
               /\ t.ms = IF state.isActive THEN ACTIVE_POLL_MS
                         ELSE IF variant = "C" THEN IDLE_POLL_MS_C ELSE IDLE_POLL_MS_D

\* C12: after an active record with a formUrl is processed, Session is
\* exactly the record's (itemId, formUrl).
C12_SessionIsRecord ==
    [][\A i \in 1..MaxInFlight, r \in Responses :
          (/\ r.kind = "record" /\ r.data.active /\ r.data.formUrl # Absent
           /\ PollResponse(i, r)) =>
              Session' = <<itemOf(W, r.data), r.data.formUrl>>]_vars

\* C13: an active record without formUrl enters or keeps ActiveLoading and
\* does not touch the iframe: no src assignment, no hide, no src removal.
C13_NoUrlLoading ==
    [][(ev'.op = "response" /\ ev'.in = "nourl") =>
          /\ DisplayState' = "ActiveLoading"
          /\ ev'.nSet = 0
          /\ frame' = frame
          /\ cls'["frame"] = cls["frame"]]_vars

\* C13 as amended: part_001 does so; script.js (both revisions) and part_000
\* end Idle with an empty Session, and hide the iframe if they were not Idle.
C13_Amended ==
    [][(ev'.op = "response" /\ ev'.in = "nourl") =>
          IF variant = "D"
          THEN /\ DisplayState' = "ActiveLoading"
               /\ ev'.nSet = 0
               /\ frame' = frame
               /\ cls'["frame"] = cls["frame"]
               /\ Session' = Session
          ELSE /\ DisplayState' = "Idle" /\ SessionEmpty'
               /\ ev'.nSet = 0
               /\ DisplayState # "Idle" => cls'["frame"]]_vars

C13_Witness ==
    /\ variant = "D" /\ Response("nourl") /\ ev.prev = "ActiveLoaded"
    /\ DisplayState = "ActiveLoading" /\ ~SessionEmpty /\ ~cls["frame"]

\* C14: a call of showIdle while the loop is Idle changes neither the
\* Session, nor a timer or its handle or interval, nor the iframe.
CallsShowIdle == IF variant = "D" THEN {"inactive"} ELSE {"inactive", "fail", "nourl"}

C14_IdleIdempotent ==
    [][(ev'.op = "response" /\ ev'.in \in CallsShowIdle /\ DisplayState = "Idle") =>
          /\ state' = state
          /\ timers' = timers
          /\ frame' = frame
          /\ loads' = loads
          /\ cls' = cls]_vars

C14_Witness ==
    /\ Response("inactive") /\ ev.prev = "Idle" /\ DisplayState = "Idle"
    /\ variant = "C" /\ frame.src # NoSrc
    /\ \E t \in PollTimers : t.ms = IDLE_POLL_MS_C

\* C15: while the display is visible the page is running and a poll timer
\* is live.
C15_PollingNeverStops ==
    ~docHidden => (Alive /\ PollTimers # {})

\* C16: revision A redirects only from the grace timer of the current
\* Session: the loop is loading that Session's URL, the load of its source
\* has not been reported, and the page navigates to that URL.
C16_RedirectOnlyOnGrace ==
    [][/\ ev'.op = "graceTimeout" =>
             /\ DisplayState = "ActiveLoading"
             /\ loads.cur
             /\ state.lastFormUrl # Null
             /\ frame.src = state.lastFormUrl
             /\ page' = [phase |-> "navigating", to |-> state.lastFormUrl]
       /\ page'.to # page.to => ev'.op = "graceTimeout"
       /\ (page.phase = "kiosk" /\ page'.phase # "kiosk") => ev'.op = "graceTimeout"]_vars

C16_Witness ==
    /\ variant = "A" /\ ev.op = "graceTimeout" /\ DisplayState = "Redirect"
    /\ page.phase = "navigating" /\ page.to = state.lastFormUrl

\* C17: the inactivity timer is live exactly when the loop is not Idle.
C17_TimerIffActive ==
    /\ (ActiveTimers # {}) <=> (DisplayState # "Idle")
    /\ variant \in Adaptive => ((ActiveTimers # {}) <=> state.isActive)

C17_Witness ==
    /\ ev.op = "activeTimeout" /\ ActiveTimers = {} /\ DisplayState = "Idle"
    /\ variant = "A" /\ ev.prev = "Redirect"

\* C18: in C and D, while the loading indicator is shown and the Session
\* holds a URL, the iframe's source is that URL and its load is still owed.
C18_LoadingHasPendingLoad ==
    (variant \in Adaptive /\ DisplayState = "ActiveLoading" /\ state.lastFormUrl # Null) =>
        (loads.cur /\ frame.src = state.lastFormUrl)

\* C19: DisplayState becomes ActiveLoaded only by the load of the current
\* source, and a load that arrives while Idle leaves the loop Idle.
C19_LoadedOnlyByCurrentLoad ==
    [][/\ (DisplayState # "ActiveLoaded" /\ DisplayState' = "ActiveLoaded") =>
             (ev'.op = "load" /\ ev'.cur)
       /\ (ev'.op = "load" /\ DisplayState = "Idle") => DisplayState' = "Idle"]_vars

====
